---- MODULE Spec2Model ----
(***************************************************************************)
(* Model of app.py: a Flask service with two JSON endpoints.               *)
(*   GET  /api/scene    -> load_scene_text (Scene Store)                   *)
(*   POST /api/analyze  -> analyze_with_gpt (Prompt Builder + LLM client)  *)
(* Strings are sequences of tokens; a path is a sequence of components;    *)
(* a component is a sequence of tokens.                                    *)
(***************************************************************************)
EXTENDS Integers, Sequences, FiniteSets, TLC

VARIABLES
    fs,       \* the filesystem: tracked location -> node
    pc,       \* position of the worker: "idle", "reading", "done"
    req,      \* the request being handled (or the arguments of a direct call)
    resp,     \* the response produced for it
    fsops,    \* filesystem calls made by the handler during this request
    calls,    \* outbound chat.completions.create calls made for this request
    prompt,   \* the prompt handed to the provider by the last call
    upstream  \* what the provider did with that call

vars == <<fs, pc, req, resp, fsops, calls, prompt, upstream>>

----------------------------------------------------------------------------
(* Bounds *)

MaxIdLen == 2
MaxActLen == 5
MaxFileLen == 2
MaxTextLen == 3
MaxContentLen == 2

----------------------------------------------------------------------------
(* Generic helpers *)

RECURSIVE SeqsUpTo(_, _)
SeqsUpTo(S, n) ==
    IF n = 0 THEN { <<>> }
    ELSE LET shorter == SeqsUpTo(S, n - 1)
         IN  shorter \cup { Append(s, x) : s \in { t \in shorter : Len(t) = n - 1 }, x \in S }

Contains(hay, needle) ==
    \E i \in 0..(Len(hay) - Len(needle)) :
        \A j \in 1..Len(needle) : hay[i + j] = needle[j]

NoReq == [ep |-> "none"]
NoResp == [status |-> 0, ctype |-> "none", kind |-> "none", val |-> <<>>]

NoUpstream == [kind |-> "none", content |-> <<>>]

\* flask.jsonify(obj), status
JsonResp(status, kind, val) ==
    [status |-> status, ctype |-> "json", kind |-> kind, val |-> val]

\* What Flask/werkzeug send when the view function itself raises: an HTML
\* page with the exception's status (400 for BadRequest, 500 otherwise).
HtmlResp(status) ==
    [status |-> status, ctype |-> "html", kind |-> "page", val |-> <<>>]

----------------------------------------------------------------------------
(* Filesystem *)

SCENE_DIR == <<"scenes">>

RootLoc == <<>>
CwdLoc == << <<"srv">> >>
SceneDirLoc == Append(CwdLoc, SCENE_DIR)

\* str tokens of identifiers arriving in the query string
IdChars == {"4", "/", ".."}
Ids == SeqsUpTo(IdChars, MaxIdLen)
LongActs == SeqsUpTo(IdChars, MaxActLen)

\* f"lear_act{act}_scene{scene}.txt"
Filename(act, scene) == <<"lear_act">> \o act \o <<"_scene">> \o scene \o <<".txt">>

\* pathlib splits a path string on "/" and drops empty components; it keeps
\* ".." components as they are.
RECURSIVE SplitParts(_, _, _)
SplitParts(toks, cur, acc) ==
    IF toks = <<>> THEN (IF cur = <<>> THEN acc ELSE Append(acc, cur))
    ELSE IF Head(toks) = "/"
         THEN SplitParts(Tail(toks), <<>>, IF cur = <<>> THEN acc ELSE Append(acc, cur))
         ELSE SplitParts(Tail(toks), Append(cur, Head(toks)), acc)

\* Path(SCENE_DIR) / filename
ScenePath(act, scene) == <<SCENE_DIR>> \o SplitParts(Filename(act, scene), <<>>, <<>>)

\* str(path)
RECURSIVE PathStr(_)
PathStr(parts) ==
    IF parts = <<>> THEN <<>>
    ELSE IF Len(parts) = 1 THEN parts[1]
    ELSE parts[1] \o <<"/">> \o PathStr(Tail(parts))

Absent == [kind |-> "absent", bytes |-> <<>>, mode |-> "none"]
Dir == [kind |-> "dir", bytes |-> <<>>, mode |-> "r"]
File(bytes, mode) == [kind |-> "file", bytes |-> bytes, mode |-> mode]

\* Bytes of a file: "a" is an ASCII letter, "CR"/"LF" the line-end bytes,
\* "xFF" a byte that is not valid UTF-8.
ByteVals == {"a", "CR", "LF", "xFF"}
FileContents == SeqsUpTo(ByteVals, MaxFileLen)

SceneFileLoc == Append(SceneDirLoc, <<"lear_act", "4", "_scene", "4", ".txt">>)
PrefixDirLoc == Append(SceneDirLoc, <<"lear_act">>)
OutsideLoc == Append(CwdLoc, <<"_scene", "4", ".txt">>)

FixedDirs == {RootLoc, CwdLoc, SceneDirLoc}
Tracked == FixedDirs \cup {SceneFileLoc, PrefixDirLoc, OutsideLoc}

Lookup(f, loc) == IF loc \in DOMAIN f THEN f[loc] ELSE Absent

Parent(loc) == IF loc = <<>> THEN <<>> ELSE SubSeq(loc, 1, Len(loc) - 1)

\* Kernel path resolution of a relative path (POSIX): every component is
\* looked up in a directory that must exist; ".." moves to the parent.
RECURSIVE Resolve(_, _, _)
Resolve(f, cur, parts) ==
    LET node == Lookup(f, cur) IN
    IF parts = <<>>
    THEN [err |-> IF node.kind = "absent" THEN "ENOENT" ELSE "ok", loc |-> cur]
    ELSE IF node.kind = "absent" THEN [err |-> "ENOENT", loc |-> cur]
    ELSE IF node.kind = "file" THEN [err |-> "ENOTDIR", loc |-> cur]
    ELSE IF Head(parts) = <<"..">> THEN Resolve(f, Parent(cur), Tail(parts))
    ELSE Resolve(f, Append(cur, Head(parts)), Tail(parts))

\* Path.exists(): stat() succeeded; ENOENT and ENOTDIR are reported as False
PathExists(f, parts) == Resolve(f, CwdLoc, parts).err = "ok"

\* bytes.decode("utf-8") fails on an invalid byte
DecodeOk(bytes) == \A i \in 1..Len(bytes) : bytes[i] # "xFF"

\* variant: the file opened with newline="" (no translation)
UniversalNewlinesRaw(s) == s

\* open(..., newline=None): universal newlines, "\r\n" and "\r" become "\n"
RECURSIVE UniversalNewlines(_)
UniversalNewlines(s) ==
    IF s = <<>> THEN <<>>
    ELSE IF Head(s) = "CR"
         THEN IF Len(s) >= 2 /\ s[2] = "LF"
              THEN <<"LF">> \o UniversalNewlines(SubSeq(s, 3, Len(s)))
              ELSE <<"LF">> \o UniversalNewlines(Tail(s))
         ELSE <<Head(s)>> \o UniversalNewlines(Tail(s))

\* Path.read_text(encoding="utf-8"): the text, or the exception raised;
\* loc is the file the open() call was resolved to
ReadText(f, parts) ==
    LET r == Resolve(f, CwdLoc, parts)
        node == Lookup(f, r.loc)
    IN  IF r.err = "ENOENT" THEN [exc |-> "FileNotFoundError", text |-> <<>>, loc |-> r.loc]
        ELSE IF r.err = "ENOTDIR" THEN [exc |-> "NotADirectoryError", text |-> <<>>, loc |-> r.loc]
        ELSE IF node.kind = "dir" THEN [exc |-> "IsADirectoryError", text |-> <<>>, loc |-> r.loc]
        ELSE IF node.mode # "r" THEN [exc |-> "PermissionError", text |-> <<>>, loc |-> r.loc]
        ELSE IF ~DecodeOk(node.bytes) THEN [exc |-> "UnicodeDecodeError", text |-> <<>>, loc |-> r.loc]
        ELSE [exc |-> "none", text |-> UniversalNewlines(node.bytes), loc |-> r.loc]

\* str(e) of the two FileNotFoundError the handler can catch
NoSceneFileMsg(parts) == <<"No scene file: ">> \o PathStr(parts)
Errno2Msg(parts) == <<"[Errno 2] No such file or directory: '">> \o PathStr(parts) \o <<"'">>

\* request.args.get(name): None when the parameter is missing, else its string
Missing == [present |-> FALSE, s |-> <<>>]
Given(s) == [present |-> TRUE, s |-> s]
IdArgs == {Missing} \cup {Given(s) : s \in Ids}
LongActArgs == {Given(s) : s \in LongActs}

\* variant: "v is None"
FalsyNoneOnly(v) == ~v.present

\* "not v" for v a str or None
Falsy(v) == ~v.present \/ v.s = <<>>

StatOp(parts) == [op |-> "stat", at |-> parts]
OpenOp(loc) == [op |-> "open", at |-> loc]

SceneReq(act, scene) == [ep |-> "scene", act |-> act, scene |-> scene]

\* variant: the generic except clause placed first
SceneResponseGenericFirst(r, parts) ==
    IF r.exc = "none" THEN JsonResp(200, "text", r.text)
    ELSE JsonResp(500, "error", <<"Failed to load scene">>)

\* the except clauses of api_scene applied to the outcome of read_text
SceneResponse(r, parts) ==
    IF r.exc = "none" THEN JsonResp(200, "text", r.text)
    ELSE IF r.exc = "FileNotFoundError" THEN JsonResp(404, "error", Errno2Msg(parts))
    ELSE JsonResp(500, "error", <<"Failed to load scene">>)

InitScene ==
    /\ fs = [loc \in Tracked |-> IF loc \in FixedDirs THEN Dir ELSE Absent]
    /\ pc = "idle"
    /\ req = NoReq
    /\ resp = NoResp
    /\ fsops = <<>>
    /\ calls = 0
    /\ prompt = <<>>
    /\ upstream = NoUpstream

\* api_scene up to and including path.exists(); a missing query parameter
\* is request.args.get(...) = None, an empty one is "", both falsy.
SceneCheck(act, scene) ==
    /\ pc = "idle"
    /\ req' = SceneReq(act, scene)
    /\ IF Falsy(act) \/ Falsy(scene)
       THEN /\ resp' = JsonResp(400, "error", <<"act and scene are required">>)
            /\ fsops' = <<>>
            /\ pc' = "done"
       ELSE /\ fsops' = <<StatOp(ScenePath(act.s, scene.s))>>
            /\ IF ~PathExists(fs, ScenePath(act.s, scene.s))
               THEN /\ resp' = JsonResp(404, "error", NoSceneFileMsg(ScenePath(act.s, scene.s)))
                    /\ pc' = "done"
               ELSE /\ resp' = NoResp
                    /\ pc' = "reading"
    /\ UNCHANGED <<fs, calls, prompt, upstream>>

\* api_scene from path.read_text() to the response
SceneRead ==
    /\ pc = "reading"
    /\ LET parts == ScenePath(req.act.s, req.scene.s)
           r == ReadText(fs, parts)
       IN  /\ fsops' = Append(fsops, OpenOp(r.loc))
           /\ resp' = SceneResponse(r, parts)
    /\ pc' = "done"
    /\ UNCHANGED <<fs, req, calls, prompt, upstream>>

\* the response is sent; the worker takes the next request
Finish ==
    /\ pc = "done"
    /\ pc' = "idle"
    /\ req' = NoReq
    /\ resp' = NoResp
    /\ fsops' = <<>>
    /\ calls' = 0
    /\ prompt' = <<>>
    /\ upstream' = NoUpstream
    /\ UNCHANGED fs

\* Other processes change the scenes directory and its surroundings.  They
\* are not interleaved after the response is computed: a change there is the
\* same as a change after Finish.
EnvWrite(loc, bytes) ==
    /\ pc # "done"
    /\ loc \in {SceneFileLoc, OutsideLoc}
    /\ fs[loc].kind # "dir"
    /\ fs' = [fs EXCEPT ![loc] = File(bytes, "r")]
    /\ UNCHANGED <<pc, req, resp, fsops, calls, prompt, upstream>>

EnvRemove(loc) ==
    /\ pc # "done"
    /\ loc \in Tracked \ FixedDirs
    /\ fs[loc].kind # "absent"
    /\ fs' = [fs EXCEPT ![loc] = Absent]
    /\ UNCHANGED <<pc, req, resp, fsops, calls, prompt, upstream>>

EnvMkdir(loc) ==
    /\ pc # "done"
    /\ loc \in {SceneFileLoc, PrefixDirLoc}
    /\ fs[loc].kind = "absent"
    /\ fs' = [fs EXCEPT ![loc] = Dir]
    /\ UNCHANGED <<pc, req, resp, fsops, calls, prompt, upstream>>

EnvChmod ==
    /\ pc # "done"
    /\ fs[SceneFileLoc].kind = "file"
    /\ fs' = [fs EXCEPT ![SceneFileLoc].mode = IF @ = "r" THEN "none" ELSE "r"]
    /\ UNCHANGED <<pc, req, resp, fsops, calls, prompt, upstream>>

\* Requests with short identifiers against a scene file that other processes
\* write, remove, replace by a directory and make unreadable
NextScene ==
    \/ pc = "idle" /\ \E act \in IdArgs, scene \in IdArgs : SceneCheck(act, scene)
    \/ SceneRead
    \/ Finish
    \/ pc # "done" /\ \E bytes \in FileContents : EnvWrite(SceneFileLoc, bytes)
    \/ EnvRemove(SceneFileLoc)
    \/ EnvMkdir(SceneFileLoc)
    \/ EnvChmod

SpecScene == InitScene /\ [][NextScene]_vars

\* Requests with long act identifiers against a directory tree that other
\* processes populate inside and outside the scenes directory
NextPath ==
    \/ pc = "idle" /\ \E act \in LongActArgs, scene \in IdArgs : SceneCheck(act, scene)
    \/ SceneRead
    \/ Finish
    \/ \E loc \in {SceneFileLoc, OutsideLoc} : EnvWrite(loc, <<"a">>)
    \/ \E loc \in Tracked : EnvRemove(loc)
    \/ EnvMkdir(PrefixDirLoc)

SpecPath == InitScene /\ [][NextPath]_vars

----------------------------------------------------------------------------
(* POST /api/analyze *)

\* characters of a passage: "SP" and "NL" are whitespace
TextChars == {"SP", "NL", "a"}
Whitespace == {"SP", "NL"}
Texts == SeqsUpTo(TextChars, MaxTextLen)

RECURSIVE LStrip(_)
LStrip(s) == IF s # <<>> /\ Head(s) \in Whitespace THEN LStrip(Tail(s)) ELSE s

RECURSIVE RStrip(_)
RStrip(s) ==
    IF s # <<>> /\ s[Len(s)] \in Whitespace THEN RStrip(SubSeq(s, 1, Len(s) - 1)) ELSE s

\* variant: the text used as received
StripNothing(s) == s

\* str.strip()
Strip(s) == RStrip(LStrip(s))

\* The pieces of the prompt template around the two interpolations
PromptHead == <<"You are a literary critic ... in Shakespeare's *King Lear*.">>
PromptRubric == <<"Your job is to rate ... Now analyze this passage:">>
PromptTail == <<"Return ONLY a JSON object with these keys: ...">>
ContextLead == "Context: this passage is from King Lear, "

\* ", ".join(context_bits)
RECURSIVE JoinBits(_)
JoinBits(bits) ==
    IF bits = <<>> THEN <<>>
    ELSE IF Len(bits) = 1 THEN bits[1]
    ELSE bits[1] \o <<", ">> \o JoinBits(Tail(bits))

\* variant: the context line written only when both identifiers are given
ContextStrBoth(act, scene) ==
    IF ~Falsy(act) /\ ~Falsy(scene)
    THEN <<ContextLead>> \o <<"Act ">> \o act.s \o <<", ">> \o <<"Scene ">> \o scene.s \o <<".", "NL">>
    ELSE <<>>

\* context_bits and context_str of analyze_with_gpt
ContextStr(act, scene) ==
    LET bits == (IF ~Falsy(act) THEN << <<"Act ">> \o act.s >> ELSE <<>>)
                \o (IF ~Falsy(scene) THEN << <<"Scene ">> \o scene.s >> ELSE <<>>)
    IN  IF bits # <<>> THEN <<ContextLead>> \o JoinBits(bits) \o <<".", "NL">> ELSE <<>>

\* the f-string prompt of analyze_with_gpt
BuildPrompt(text, act, scene) ==
    <<"NL">> \o PromptHead \o <<"NL", "NL">> \o ContextStr(act, scene) \o <<"NL">>
    \o PromptRubric \o <<"NL", "NL", "QQQ">> \o text \o <<"QQQ", "NL", "NL">>
    \o PromptTail \o <<"NL">>

\* Tokens of the provider's message content
JsonToks == {"{", "}", "[", "]", ":", "5", "null", "str"}
MemberObject == <<"{", "str", ":", "5", "}">>
Contents == SeqsUpTo(JsonToks, MaxContentLen) \cup {MemberObject}

ParseFail == [ok |-> FALSE, val |-> <<>>, rest |-> <<>>]
Parsed(tag, children, rest) == [ok |-> TRUE, val |-> <<tag, children>>, rest |-> rest]

\* the JSON grammar without the comma: a value is a number, null, a string,
\* an array of at most one value or an object of at most one member
RECURSIVE ParseValue(_)
ParseValue(toks) ==
    IF toks = <<>> THEN ParseFail
    ELSE IF Head(toks) = "5" THEN Parsed("num", <<>>, Tail(toks))
    ELSE IF Head(toks) = "null" THEN Parsed("null", <<>>, Tail(toks))
    ELSE IF Head(toks) = "str" THEN Parsed("str", <<>>, Tail(toks))
    ELSE IF Head(toks) = "["
         THEN IF Len(toks) >= 2 /\ toks[2] = "]"
              THEN Parsed("arr", <<>>, SubSeq(toks, 3, Len(toks)))
              ELSE LET r == ParseValue(Tail(toks))
                   IN  IF r.ok /\ r.rest # <<>> /\ Head(r.rest) = "]"
                       THEN Parsed("arr", <<r.val>>, Tail(r.rest))
                       ELSE ParseFail
    ELSE IF Head(toks) = "{"
         THEN IF Len(toks) >= 2 /\ toks[2] = "}"
              THEN Parsed("obj", <<>>, SubSeq(toks, 3, Len(toks)))
              ELSE IF Len(toks) >= 3 /\ toks[2] = "str" /\ toks[3] = ":"
                   THEN LET r == ParseValue(SubSeq(toks, 4, Len(toks)))
                        IN  IF r.ok /\ r.rest # <<>> /\ Head(r.rest) = "}"
                            THEN Parsed("obj", <<r.val>>, Tail(r.rest))
                            ELSE ParseFail
                   ELSE ParseFail
    ELSE ParseFail

\* json.loads(content): the whole text must be one value
JsonLoads(content) ==
    LET r == ParseValue(content)
    IN  IF r.ok /\ r.rest = <<>> THEN r ELSE ParseFail

\* What the provider does with one chat.completions.create call
Upstreams ==
    {[kind |-> "transport", content |-> <<>>], [kind |-> "status", content |-> <<>>]}
    \cup {[kind |-> "content", content |-> c] : c \in Contents}

Returned(data, p) == [raised |-> FALSE, msg |-> <<>>, data |-> data, calls |-> 1, prompt |-> p]
Raised(msg, n, p) == [raised |-> TRUE, msg |-> msg, data |-> <<>>, calls |-> n, prompt |-> p]

\* variant: a failed create call is sent again
AnalyzeWithGptRetry(text, act, scene, up) ==
    LET p == BuildPrompt(text, act, scene) IN
    IF up.kind = "transport" THEN Raised(<<"Connection error.">>, 2, p)
    ELSE IF up.kind = "status" THEN Raised(<<"Error code: 500">>, 2, p)
    ELSE IF ~JsonLoads(up.content).ok THEN Raised(<<"JSONDecodeError">>, 1, p)
    ELSE Returned(JsonLoads(up.content).val, p)

\* analyze_with_gpt: one create call, then json.loads of its content
AnalyzeWithGpt(text, act, scene, up) ==
    LET p == BuildPrompt(text, act, scene) IN
    IF up.kind = "transport" THEN Raised(<<"Connection error.">>, 1, p)
    ELSE IF up.kind = "status" THEN Raised(<<"Error code: 500">>, 1, p)
    ELSE IF ~JsonLoads(up.content).ok THEN Raised(<<"JSONDecodeError">>, 1, p)
    ELSE Returned(JsonLoads(up.content).val, p)

\* variant: the exception text sent to the client
AnalyzeResponseLeak(r) ==
    IF r.raised THEN JsonResp(500, "error", <<"GPT analysis failed: ">> \o r.msg)
    ELSE JsonResp(200, "value", r.data)

\* the try/except of api_analyze around analyze_with_gpt
AnalyzeResponse(r) ==
    IF r.raised THEN JsonResp(500, "error", <<"GPT analysis failed.">>)
    ELSE JsonResp(200, "value", r.data)

\* The request body: bytes that are not JSON, a JSON value that is not an
\* object, or an object whose "text" is missing, null, a number or a string.
TextFields ==
    {[t |-> k, s |-> <<>>] : k \in {"missing", "null", "num"}}
    \cup {[t |-> "str", s |-> s] : s \in Texts}
OptFields == {Missing, Given(<<>>), Given(<<"4">>)}
Bodies ==
    {[kind |-> k, text |-> [t |-> "missing", s |-> <<>>], act |-> Missing, scene |-> Missing] :
        k \in {"invalid", "null", "num", "str", "arr"}}
    \cup {[kind |-> "obj", text |-> t, act |-> a, scene |-> sc] :
        t \in TextFields, a \in OptFields, sc \in OptFields}

AnalyzeReq(body) == [ep |-> "analyze", body |-> body]

\* api_analyze, from get_json to the response
Analyze(body, up) ==
    /\ pc = "idle"
    /\ req' = AnalyzeReq(body)
    /\ pc' = "done"
    /\ IF body.kind = "invalid"
       THEN \* get_json(force=True) raises BadRequest
            /\ resp' = HtmlResp(400)
            /\ calls' = 0 /\ prompt' = <<>> /\ upstream' = NoUpstream
       ELSE IF body.kind # "obj" \/ body.text.t \in {"null", "num"}
       THEN \* payload.get / .strip() raise AttributeError outside the try
            /\ resp' = HtmlResp(500)
            /\ calls' = 0 /\ prompt' = <<>> /\ upstream' = NoUpstream
       ELSE LET text == Strip(body.text.s) IN
            IF text = <<>>
            THEN /\ resp' = JsonResp(400, "error", <<"No text provided.">>)
                 /\ calls' = 0 /\ prompt' = <<>> /\ upstream' = NoUpstream
            ELSE LET r == AnalyzeWithGpt(text, body.act, body.scene, up) IN
                 /\ resp' = AnalyzeResponse(r)
                 /\ calls' = r.calls
                 /\ prompt' = r.prompt
                 /\ upstream' = up
    /\ UNCHANGED <<fs, fsops>>

NextAnalyze ==
    \/ pc = "idle" /\ \E body \in Bodies, up \in Upstreams : Analyze(body, up)
    \/ Finish

SpecAnalyze == InitScene /\ [][NextAnalyze]_vars

----------------------------------------------------------------------------
(* analyze_with_gpt's prompt, called directly *)

PromptReq(text, act, scene) == [ep |-> "prompt", text |-> text, act |-> act, scene |-> scene]

InitPrompt ==
    /\ fs = [loc \in Tracked |-> IF loc \in FixedDirs THEN Dir ELSE Absent]
    /\ pc = "idle"
    /\ \E text \in Texts, act \in OptFields, scene \in OptFields :
          req = PromptReq(text, act, scene)
    /\ resp = NoResp
    /\ fsops = <<>>
    /\ calls = 0
    /\ prompt = <<>>
    /\ upstream = NoUpstream

BuildStep ==
    /\ pc = "idle"
    /\ pc' = "done"
    /\ prompt' = BuildPrompt(req.text, req.act, req.scene)
    /\ UNCHANGED <<fs, req, resp, fsops, calls, upstream>>

NextPrompt == BuildStep

SpecPrompt == InitPrompt /\ [][NextPrompt]_vars

----------------------------------------------------------------------------
(* Properties of GET /api/scene *)

IsUnder(dir, loc) == Len(loc) > Len(dir) /\ SubSeq(loc, 1, Len(dir)) = dir

SceneDone == pc = "done" /\ req.ep = "scene"
\* an identifier counts as supplied when it is a non-empty string
Supplied(v) == v.present /\ Len(v.s) > 0
BothGiven == Supplied(req.act) /\ Supplied(req.scene)
ReqPath == ScenePath(req.act.s, req.scene.s)
\* the node the request's path names when the response is computed
ReqTarget == Resolve(fs, CwdLoc, ReqPath)
ReqNode == Lookup(fs, ReqTarget.loc)

\* C4: with act and scene given, a path that names no file answers 404 with
\* a message containing the path, also when the file vanished after the
\* existence check; a path that names a directory, an unreadable file or a
\* file that is not UTF-8 answers 500 with the generic message.
C4_NotFoundOrFailure ==
    (SceneDone /\ BothGiven) =>
        /\ ReqTarget.err # "ok" =>
              /\ resp.status = 404 /\ resp.ctype = "json" /\ resp.kind = "error"
              /\ Contains(resp.val, PathStr(ReqPath))
        /\ (ReqTarget.err = "ok" /\ (ReqNode.kind = "dir" \/ ReqNode.mode # "r"
                                      \/ ~DecodeOk(ReqNode.bytes))) =>
              resp = JsonResp(500, "error", <<"Failed to load scene">>)

\* the file was there at the existence check and gone at the read
C4_RaceWitness ==
    /\ SceneDone /\ BothGiven
    /\ Len(fsops) = 2 /\ ReqTarget.err = "ENOENT"
    /\ resp.status = 404

C4_FailureWitness ==
    /\ SceneDone /\ BothGiven
    /\ ReqTarget.err = "ok" /\ ReqNode.kind = "file" /\ ~DecodeOk(ReqNode.bytes)
    /\ resp.status = 500

\* the text a reader sees: a LF that follows a CR is dropped, every CR reads
\* as LF, every other byte reads as itself
KeptAt(b) == { i \in 1..Len(b) : ~(b[i] = "LF" /\ i > 1 /\ b[i - 1] = "CR") }
ReadsAs(b, t) ==
    /\ Len(t) = Cardinality(KeptAt(b))
    /\ \A i \in KeptAt(b) :
          t[Cardinality({ j \in KeptAt(b) : j <= i })] = (IF b[i] = "CR" THEN "LF" ELSE b[i])

SceneOk == SceneDone /\ resp.status = 200

\* C5 as stated: a 200 response carries exactly the bytes the file holds
C5_ExactContents ==
    SceneOk => (resp.ctype = "json" /\ resp.kind = "text" /\ resp.val = ReqNode.bytes)

\* C5 amended: a 200 response carries the contents the file holds when it is
\* read, with every CR LF pair and every lone CR read as one LF (so exactly
\* the contents when they hold no CR), whatever earlier requests returned.
C5_FreshContents ==
    /\ (SceneDone /\ BothGiven /\ ReqTarget.err = "ok" /\ ReqNode.kind = "file"
          /\ ReqNode.mode = "r" /\ DecodeOk(ReqNode.bytes)) => resp.status = 200
    /\ SceneOk =>
          /\ resp.ctype = "json" /\ resp.kind = "text"
          /\ ReqNode.kind = "file"
          /\ ReadsAs(ReqNode.bytes, resp.val)
          /\ (\A i \in 1..Len(ReqNode.bytes) : ReqNode.bytes[i] # "CR") => resp.val = ReqNode.bytes

C5_Witness ==
    /\ SceneOk
    /\ ReqNode.bytes = <<"CR", "LF">>
    /\ resp.val = <<"LF">>

\* C8: every file a request opens and returns lies under the scenes directory
C8_ReadsStayInSceneDir ==
    SceneOk => \A i \in 1..Len(fsops) :
                  fsops[i].op = "open" => IsUnder(SceneDirLoc, fsops[i].at)

\* C9: a missing or empty act or scene answers 400 with an error body and
\* the handler makes no filesystem call
C9_MissingParam ==
    (SceneDone /\ ~BothGiven) =>
        /\ resp.status = 400 /\ resp.ctype = "json" /\ resp.kind = "error"
        /\ fsops = <<>>

\* scene is given empty while the scene file of act 4 is on disk
C9_Witness ==
    /\ SceneDone
    /\ req.act = Given(<<"4">>) /\ req.scene = Given(<<>>)
    /\ fs[SceneFileLoc].kind = "file"
    /\ resp.status = 400

----------------------------------------------------------------------------
(* Properties of POST /api/analyze *)

AnalyzeDone == pc = "done" /\ req.ep = "analyze"
IsErrorBody == resp.ctype = "json" /\ resp.kind = "error"

\* C1: whatever the request body is, the client receives a JSON body, and
\* every response other than 200 is a JSON error body
C1_AlwaysJson ==
    AnalyzeDone => (resp.ctype = "json" /\ (resp.status # 200 => resp.kind = "error"))

AllWhitespace(s) == \A i \in 1..Len(s) : s[i] \in Whitespace
TextBlank ==
    /\ req.body.kind = "obj"
    /\ \/ req.body.text.t = "missing"
       \/ req.body.text.t = "str" /\ AllWhitespace(req.body.text.s)
TextGiven ==
    /\ req.body.kind = "obj"
    /\ req.body.text.t = "str" /\ ~AllWhitespace(req.body.text.s)

\* C2: a JSON object whose text is missing, empty or only whitespace is
\* answered 400 with an error body, whatever act and scene are
C2_BlankText ==
    (AnalyzeDone /\ TextBlank) => (resp.status = 400 /\ IsErrorBody)

C2_Witness ==
    /\ AnalyzeDone
    /\ req.body.text = [t |-> "str", s |-> <<"SP", "NL">>]
    /\ req.body.act = Given(<<"4">>)
    /\ resp.status = 400

UpstreamFailed ==
    \/ upstream.kind \in {"transport", "status"}
    \/ upstream.kind = "content" /\ ~JsonLoads(upstream.content).ok

\* C3: with a non-blank text, a transport error, an error status or a content
\* that is not JSON all end in the same response: 500 and the fixed message
C3_GenericFailure ==
    (AnalyzeDone /\ TextGiven /\ UpstreamFailed) =>
        resp = JsonResp(500, "error", <<"GPT analysis failed.">>)

C3_Witness ==
    /\ AnalyzeDone /\ TextGiven
    /\ upstream.kind = "transport"
    /\ resp.status = 500

C7_OnlyObjects ==
    AnalyzeDone =>
        /\ resp.status = 200 => resp.val[1] = "obj"
        /\ (TextGiven /\ upstream.kind = "content"
              /\ (~JsonLoads(upstream.content).ok \/ JsonLoads(upstream.content).val[1] # "obj"))
           => (resp.status = 500 /\ IsErrorBody)

----------------------------------------------------------------------------
(* Properties of the prompt *)

PromptDone == pc = "done" /\ req.ep = "prompt"
HasContextLine == \E i \in 1..Len(prompt) : prompt[i] = ContextLead

\* C10: the prompt is not empty and holds the text unchanged in one piece;
\* the context line is there and names each identifier that was supplied
\* (a non-empty string), and is not there when none was supplied
C10_Prompt ==
    PromptDone =>
        /\ prompt # <<>>
        /\ Contains(prompt, req.text)
        /\ Supplied(req.act) => (HasContextLine /\ Contains(prompt, <<"Act ">> \o req.act.s))
        /\ Supplied(req.scene) => (HasContextLine /\ Contains(prompt, <<"Scene ">> \o req.scene.s))
        /\ (~Supplied(req.act) /\ ~Supplied(req.scene)) => ~HasContextLine

C10_Witness ==
    /\ PromptDone
    /\ req.text = <<"SP", "a", "NL">>
    /\ Supplied(req.act) /\ ~Supplied(req.scene)
    /\ HasContextLine
====
